---- MODULE Spec2Model ----
(***************************************************************************)
(* Model of the Conversation component (src/unnamed/part_001) and of the   *)
(* mock backend (src/mock/backend.ts) of the voice agent.                  *)
(*                                                                         *)
(* React state (useState) and refs (useRef) are the variables.  Every      *)
(* event handler runs to completion, so each handler is one action.  The   *)
(* environment is the browser (microphone permission, AudioContext), the   *)
(* user (button clicks) and the realtime session object of the SDK, whose  *)
(* callbacks onopen / onmessage / onerror / onclose arrive asynchronously. *)
(* Each call of startConversation gets a number; the session it creates    *)
(* carries the same number.  Audio playback (nextStartTimeRef,             *)
(* audioSourcesRef) and the realtime microphone input are not modelled.    *)
(***************************************************************************)
EXTENDS Integers, Sequences, FiniteSets, TLC

\* ------------------------------------------------------------- bounds
MaxSessions == 3         \* calls of startConversation in one run
MaxText == 2             \* characters held by a transcription ref
MaxToolMessages == 1     \* toolCall messages handled in one run
MaxLimit == 22           \* |limit| of a getTransactionHistory call

\* ------------------------------------------------------------ constants
NULL == 0
InitialChecking == 1000
InitialSavings == 5000
CheckingCount == 20
SavingsCount == 15
DefaultLimit == 10

ErrNone == "null"
MicError == "Could not access the microphone. Please grant permission and try again."
KeyError == "There was an issue with the API key. Please re-select your key and try again."
SelectKeyError == "Could not open API key selection. Please try again."
ConnectionError(m) == "Connection error: " \o m \o ". Please try again."

\* e.message of an ErrorEvent, and whether its lower case includes
\* 'network error' or 'not found'
ErrorMessages == {"Network error", "Internal error"}
IsApiKeyIssue(m) == m \in {"Network error"}

Ids == 1..MaxSessions

VARIABLES
    isRecording, transcript, error, status, accounts, apiKeySelected,
    transactions, viewingHistory,
    sessionPromiseRef, inputAudioContextRef, outputAudioContextRef,
    mediaStreamRef, scriptProcessorRef, mediaStreamSourceRef,
    currentInputTranscriptionRef, currentOutputTranscriptionRef,
    calls,          \* per startConversation call: its position and its closure
    closeRequested, \* sessions with a pending .then(session => session.close())
    thenQueue,      \* per session: tool responses waiting for the promise
    liveTracks,     \* microphone streams whose tracks were not stopped
    openContexts,   \* audio contexts not closed, <<id, "in" | "out">>
    toolCall,       \* the functionCalls handled by the last step, if any
    toolResponses,  \* the sendToolResponse calls made by the last step
    lastMessage,    \* the serverContent handled by the last step, if any
    toolMessages,   \* toolCall messages handled so far
    heardInput,     \* input transcription texts since the last turnComplete
    heardOutput     \* output texts since the session start / last turnComplete

uiVars == <<isRecording, transcript, error, status, apiKeySelected>>
bankVars == <<accounts, transactions, viewingHistory>>
refVars == <<sessionPromiseRef, inputAudioContextRef, outputAudioContextRef,
             mediaStreamRef, scriptProcessorRef, mediaStreamSourceRef>>
textVars == <<currentInputTranscriptionRef, currentOutputTranscriptionRef>>
envVars == <<calls, closeRequested, thenQueue, liveTracks, openContexts>>
obsVars == <<toolCall, toolResponses, lastMessage>>
histVars == <<toolMessages, heardInput, heardOutput>>
vars == <<uiVars, bankVars, refVars, textVars, envVars, obsVars, histVars>>

\* ------------------------------------------------------------ messages
User == "user"
Agent == "agent"
NoText == <<"absent">>
NoToolCall == <<>>
NoContent == [outputTranscription |-> NoText, inputTranscription |-> NoText,
              turnComplete |-> FALSE]

\* what a step that handles no message leaves in the observation variables
Quiet ==
    /\ toolCall' = NoToolCall
    /\ toolResponses' = <<>>
    /\ lastMessage' = NoContent

InitialAccounts == [checking |-> InitialChecking, savings |-> InitialSavings]

\* the state after mounting, with the calls of startConversation made so far
\* in cs and the transcript they left in tr
InitWith(cs, tr) ==
    /\ isRecording = FALSE
    /\ transcript = tr
    /\ error = ErrNone
    /\ status = "idle"
    /\ accounts = InitialAccounts
    /\ apiKeySelected \in BOOLEAN
    /\ transactions = <<>>
    /\ viewingHistory = "null"
    /\ sessionPromiseRef = NULL
    /\ inputAudioContextRef = NULL
    /\ outputAudioContextRef = NULL
    /\ mediaStreamRef = NULL
    /\ scriptProcessorRef = NULL
    /\ mediaStreamSourceRef = NULL
    /\ currentInputTranscriptionRef = <<>>
    /\ currentOutputTranscriptionRef = <<>>
    /\ calls = cs
    /\ closeRequested = {}
    /\ thenQueue = [c \in Ids |-> <<>>]
    /\ liveTracks = {}
    /\ openContexts = {}
    /\ toolCall = NoToolCall
    /\ toolResponses = <<>>
    /\ lastMessage = NoContent
    /\ toolMessages = 0
    /\ heardInput = <<>>
    /\ heardOutput = <<>>

Init == InitWith([c \in Ids |-> [pc |-> "unused", accounts |-> InitialAccounts]], <<>>)

\* the state after all but two of the sessions were opened, stopped and closed
\* without a message
PastSessions == 1..(MaxSessions - 2)

InitLate ==
    /\ InitWith([c \in Ids |-> [pc |-> IF c \in PastSessions THEN "closed" ELSE "unused",
                                 accounts |-> InitialAccounts]],
                IF PastSessions = {} THEN <<>>
                ELSE <<[sender |-> User, text |-> <<>>],
                       [sender |-> Agent, text |-> <<>>]>>)
    /\ apiKeySelected

\* ----------------------------------------------------- stopConversation
\* session.close() on the session the ref holds: at once when its promise
\* is resolved, when it resolves otherwise
CallsAfterClose ==
    IF sessionPromiseRef # NULL /\ calls[sessionPromiseRef].pc = "open"
    THEN [calls EXCEPT ![sessionPromiseRef].pc = "closing"]
    ELSE calls

CloseRequestedAfterClose ==
    IF sessionPromiseRef # NULL /\ calls[sessionPromiseRef].pc = "connecting"
    THEN closeRequested \cup {sessionPromiseRef}
    ELSE closeRequested

\* the body of stopConversation, but for calls and closeRequested; the effect
\* cleanup of lines 384-390 calls it once more, which changes nothing
stopConversation ==
    /\ isRecording' = FALSE
    /\ status' = "idle"
    /\ sessionPromiseRef' = NULL
    /\ liveTracks' = liveTracks \ {mediaStreamRef}
    /\ mediaStreamRef' = NULL
    /\ scriptProcessorRef' = NULL
    /\ mediaStreamSourceRef' = NULL
    /\ openContexts' = openContexts \ {<<inputAudioContextRef, "in">>,
                                       <<outputAudioContextRef, "out">>}
    /\ inputAudioContextRef' = NULL
    /\ outputAudioContextRef' = NULL

\* ---------------------------------------------------- startConversation
UsedCalls == {c \in Ids : calls[c].pc # "unused"}

\* the button of line 490 is disabled while connecting, and the key screen
\* of line 403 hides it
ButtonEnabled == apiKeySelected /\ status # "connecting"

\* lines 266-273: up to the await of getUserMedia
StartConversation ==
    /\ ButtonEnabled
    /\ ~isRecording
    /\ Cardinality(UsedCalls) < MaxSessions
    /\ LET c == Cardinality(UsedCalls) + 1 IN
       calls' = [calls EXCEPT ![c] = [pc |-> "awaitMic", accounts |-> accounts]]
    /\ error' = ErrNone
    /\ status' = "connecting"
    /\ transcript' = <<>>
    /\ transactions' = <<>>
    /\ viewingHistory' = "null"
    /\ heardOutput' = <<>>
    /\ Quiet
    /\ UNCHANGED <<isRecording, apiKeySelected, accounts, refVars, textVars,
                   closeRequested, thenQueue, liveTracks, openContexts,
                   toolMessages, heardInput>>

\* lines 273-336: getUserMedia resolved and nothing threw
MicGranted(c) ==
    /\ calls[c].pc = "awaitMic"
    /\ mediaStreamRef' = c
    /\ liveTracks' = liveTracks \cup {c}
    /\ inputAudioContextRef' = c
    /\ outputAudioContextRef' = c
    /\ openContexts' = openContexts \cup {<<c, "in">>, <<c, "out">>}
    /\ sessionPromiseRef' = c
    /\ calls' = [calls EXCEPT ![c].pc = "connecting"]
    /\ Quiet
    /\ UNCHANGED <<uiVars, bankVars, scriptProcessorRef, mediaStreamSourceRef,
                   textVars, closeRequested, thenQueue, histVars>>

\* lines 338-342
CatchStart ==
    /\ error' = MicError
    /\ status' = "idle"

\* getUserMedia rejected
MicRejected(c) ==
    /\ calls[c].pc = "awaitMic"
    /\ CatchStart
    /\ calls' = [calls EXCEPT ![c].pc = "rejected"]
    /\ Quiet
    /\ UNCHANGED <<isRecording, transcript, apiKeySelected, bankVars, refVars,
                   textVars, closeRequested, thenQueue, liveTracks,
                   openContexts, histVars>>

\* getUserMedia resolved and a constructor threw: the input AudioContext
\* (point 1), the output AudioContext (2) or GoogleGenAI (3)
StartThrows(c, point) ==
    /\ calls[c].pc = "awaitMic"
    /\ mediaStreamRef' = c
    /\ liveTracks' = liveTracks \cup {c}
    /\ inputAudioContextRef' = IF point >= 2 THEN c ELSE inputAudioContextRef
    /\ outputAudioContextRef' = IF point >= 3 THEN c ELSE outputAudioContextRef
    /\ openContexts' = openContexts
                         \cup (IF point >= 2 THEN {<<c, "in">>} ELSE {})
                         \cup (IF point >= 3 THEN {<<c, "out">>} ELSE {})
    /\ CatchStart
    /\ calls' = [calls EXCEPT ![c].pc = "threw"]
    /\ Quiet
    /\ UNCHANGED <<isRecording, transcript, apiKeySelected, bankVars,
                   sessionPromiseRef, scriptProcessorRef, mediaStreamSourceRef,
                   textVars, closeRequested, thenQueue, histVars>>

\* ------------------------------------------------------ session callbacks
\* the promise of session c resolves: the waiting tool responses are sent,
\* then a requested close runs
ResolvePromise(c, cs) ==
    /\ calls' = [cs EXCEPT ![c].pc =
                    IF c \in closeRequested THEN "closing" ELSE "open"]
    /\ closeRequested' = closeRequested \ {c}
    /\ toolResponses' = thenQueue[c]
    /\ thenQueue' = [thenQueue EXCEPT ![c] = <<>>]
    /\ toolCall' = NoToolCall
    /\ lastMessage' = NoContent

\* lines 289-312; a null ref makes createMediaStreamSource throw
OnOpen(c) ==
    /\ calls[c].pc = "connecting"
    /\ IF inputAudioContextRef # NULL /\ mediaStreamRef # NULL
       THEN /\ mediaStreamSourceRef' = c
            /\ scriptProcessorRef' = c
            /\ status' = "connected"
            /\ isRecording' = TRUE
            /\ transcript' = transcript \o <<[sender |-> User, text |-> <<>>],
                                             [sender |-> Agent, text |-> <<>>]>>
       ELSE UNCHANGED <<mediaStreamSourceRef, scriptProcessorRef, status,
                        isRecording, transcript>>
    /\ ResolvePromise(c, calls)
    /\ UNCHANGED <<error, apiKeySelected, bankVars, sessionPromiseRef,
                   inputAudioContextRef, outputAudioContextRef, mediaStreamRef,
                   textVars, liveTracks, openContexts, histVars>>

\* lines 314-323
OnError(c, m) ==
    /\ calls[c].pc \in {"connecting", "open"}
    /\ IF IsApiKeyIssue(m)
       THEN error' = KeyError /\ apiKeySelected' = FALSE
       ELSE error' = ConnectionError(m) /\ UNCHANGED apiKeySelected
    /\ stopConversation
    /\ calls' = [CallsAfterClose EXCEPT ![c].pc = "errored"]
    /\ closeRequested' = CloseRequestedAfterClose \ {c}
    /\ thenQueue' = [thenQueue EXCEPT ![c] = <<>>]
    /\ Quiet
    /\ UNCHANGED <<transcript, bankVars, textVars, histVars>>

\* lines 324-327
OnClose(c) ==
    /\ calls[c].pc \in {"open", "closing", "errored"}
    /\ stopConversation
    /\ calls' = [CallsAfterClose EXCEPT ![c].pc = "closed"]
    /\ closeRequested' = CloseRequestedAfterClose
    /\ Quiet
    /\ UNCHANGED <<transcript, error, apiKeySelected, bankVars, textVars,
                   thenQueue, histVars>>

\* the End Session button, line 490
StopConversation ==
    /\ ButtonEnabled
    /\ isRecording
    /\ stopConversation
    /\ calls' = CallsAfterClose
    /\ closeRequested' = CloseRequestedAfterClose
    /\ Quiet
    /\ UNCHANGED <<transcript, error, apiKeySelected, bankVars, textVars,
                   thenQueue, histVars>>

\* lines 371-382, with window.aistudio present
HandleSelectApiKey(ok) ==
    /\ ~apiKeySelected
    /\ IF ok
       THEN apiKeySelected' = TRUE /\ error' = ErrNone
       ELSE error' = SelectKeyError /\ UNCHANGED apiKeySelected
    /\ Quiet
    /\ UNCHANGED <<isRecording, transcript, status, bankVars, refVars,
                   textVars, envVars, histVars>>

Lifecycle ==
    \/ StartConversation
    \/ StopConversation
    \/ \E c \in Ids : MicGranted(c)
    \/ \E c \in Ids : MicRejected(c)
    \/ \E c \in Ids, point \in 1..3 : StartThrows(c, point)
    \/ \E c \in Ids : OnOpen(c)
    \/ \E c \in Ids, m \in ErrorMessages : OnError(c, m)
    \/ \E c \in Ids : OnClose(c)
    \/ \E ok \in BOOLEAN : HandleSelectApiKey(ok)

\* ------------------------------------------------------------ mock backend
\* account names a function call may carry
AccountStrings == {"checking", "Savings", "credit", "constructor"}

\* String.prototype.toLowerCase on those names
toLowerCase(s) ==
    CASE s = "Savings" -> "savings"
      [] OTHER -> s

\* names every object inherits from Object.prototype
ObjectPrototypeKeys == {"constructor"}

hasOwnProperty(obj, key) == key \in DOMAIN obj

\* the generated transactions; the random fields are left out
generateRandomTransactions(accountType, count) ==
    [i \in 1..count |-> [id |-> <<accountType, i - 1>>]]

mockData ==
    [checking |-> generateRandomTransactions("checking", CheckingCount),
     savings |-> generateRandomTransactions("savings", SavingsCount)]

Min(a, b) == IF a < b THEN a ELSE b
Max(a, b) == IF a > b THEN a ELSE b

\* Array.prototype.slice: a negative index counts from the end
RelativeIndex(i, len) == IF i < 0 THEN Max(len + i, 0) ELSE Min(i, len)

\* slice taking the element at end as well
sliceInclusive(arr, start, end) ==
    LET k == RelativeIndex(start, Len(arr))
        final == Min(RelativeIndex(end, Len(arr)) + 1, Len(arr))
    IN IF final > k THEN SubSeq(arr, k + 1, final) ELSE <<>>

slice(arr, start, end) ==
    LET k == RelativeIndex(start, Len(arr))
        final == RelativeIndex(end, Len(arr))
    IN IF final > k THEN SubSeq(arr, k + 1, final) ELSE <<>>

\* an optional argument: <<>> when omitted, <<v>> otherwise
Undefined == <<>>

\* mockData[accountType]?.slice(0, limit) || []: an inherited property is
\* not nullish and has no slice, so the call throws
getMockTransactionHistory(accountType, limit) ==
    LET lim == IF limit = Undefined THEN DefaultLimit ELSE limit[1] IN
    IF hasOwnProperty(mockData, accountType)
    THEN [threw |-> FALSE, value |-> slice(mockData[accountType], 0, lim)]
    ELSE IF accountType \in ObjectPrototypeKeys
    THEN [threw |-> TRUE, value |-> <<>>]
    ELSE [threw |-> FALSE, value |-> <<>>]

\* ------------------------------------------------------------ handleToolCall
GetAccountBalance == "getAccountBalance"
TransferFunds == "transferFunds"
GetTransactionHistory == "getTransactionHistory"

AccountNotFound(a) == "Account type '" \o a \o "' not found."
InvalidAccount == "Invalid account specified."
InsufficientFunds == "Insufficient funds."
UnknownFunction(n) == "Unknown function call: " \o n

LimitOf(args) == IF "limit" \in DOMAIN args THEN <<args.limit>> ELSE Undefined

\* lines 164-165
History(fc) ==
    getMockTransactionHistory(toLowerCase(fc.args.accountType), LimitOf(fc.args))

\* Result with only the from-account tested
ResultUnchecked(fc, acc) ==
    CASE fc.name = GetAccountBalance ->
           LET accountType == toLowerCase(fc.args.accountType) IN
           IF hasOwnProperty(acc, accountType)
           THEN [balance |-> acc[accountType]]
           ELSE [error |-> AccountNotFound(accountType)]
      [] fc.name = TransferFunds ->
           LET from == toLowerCase(fc.args.fromAccount)
               to == toLowerCase(fc.args.toAccount)
               amount == fc.args.amount
           IN IF ~hasOwnProperty(acc, from)
              THEN [error |-> InvalidAccount]
              ELSE IF acc[from] < amount
              THEN [error |-> InsufficientFunds, currentBalance |-> acc[from]]
              ELSE [success |-> TRUE, fromAccount |-> from, toAccount |-> to,
                    amount |-> amount, newFromBalance |-> acc[from] - amount]
      [] fc.name = GetTransactionHistory ->
           [success |-> TRUE, transactionsRetrieved |-> Len(History(fc).value)]
      [] OTHER -> [error |-> UnknownFunction(fc.name)]

\* the result of one function call, lines 136-172; acc is the accounts
\* value the handleToolCall closure holds
Result(fc, acc) ==
    CASE fc.name = GetAccountBalance ->
           LET accountType == toLowerCase(fc.args.accountType) IN
           IF hasOwnProperty(acc, accountType)
           THEN [balance |-> acc[accountType]]
           ELSE [error |-> AccountNotFound(accountType)]
      [] fc.name = TransferFunds ->
           LET from == toLowerCase(fc.args.fromAccount)
               to == toLowerCase(fc.args.toAccount)
               amount == fc.args.amount
           IN IF ~hasOwnProperty(acc, from) \/ ~hasOwnProperty(acc, to)
              THEN [error |-> InvalidAccount]
              ELSE IF acc[from] < amount
              THEN [error |-> InsufficientFunds, currentBalance |-> acc[from]]
              ELSE [success |-> TRUE, fromAccount |-> from, toAccount |-> to,
                    amount |-> amount, newFromBalance |-> acc[from] - amount]
      [] fc.name = GetTransactionHistory ->
           [success |-> TRUE, transactionsRetrieved |-> Len(History(fc).value)]
      [] OTHER -> [error |-> UnknownFunction(fc.name)]

Throws(fc) ==
    /\ fc.name = GetTransactionHistory
    /\ History(fc).threw

IsSuccessfulTransfer(fc, acc) ==
    /\ fc.name = TransferFunds
    /\ "success" \in DOMAIN Result(fc, acc)

\* the updater of lines 155-159: the later key of the object literal wins
TransferUpdater(prev, from, to, amount) ==
    [[prev EXCEPT ![from] = prev[from] - amount] EXCEPT ![to] = prev[to] + amount]

\* the state updates one function call queues, applied to the state st
ApplyCall(fc, acc, st) ==
    CASE IsSuccessfulTransfer(fc, acc) ->
           [st EXCEPT !.accounts =
               TransferUpdater(st.accounts, toLowerCase(fc.args.fromAccount),
                               toLowerCase(fc.args.toAccount), fc.args.amount)]
      [] fc.name = GetTransactionHistory ->
           [st EXCEPT
              !.transactions = History(fc).value,
              !.viewingHistory = fc.args.accountType]
      [] OTHER -> st

FunctionResponse(fc, acc) ==
    [id |-> fc.id, name |-> fc.name, response |-> Result(fc, acc)]

\* the loop of lines 134-183 from the i-th call on; a call that throws ends it
RECURSIVE handleToolCall(_, _, _, _)
handleToolCall(functionCalls, i, acc, st) ==
    IF i > Len(functionCalls) THEN st
    ELSE IF Throws(functionCalls[i]) THEN [st EXCEPT !.threw = TRUE]
    ELSE handleToolCall(functionCalls, i + 1, acc,
             [ApplyCall(functionCalls[i], acc, st) EXCEPT
                 !.responses = Append(@, FunctionResponse(functionCalls[i], acc))])

\* ------------------------------------------------------------- handleMessage
Whitespace == {" "}

RECURSIVE trimStart(_)
trimStart(s) ==
    IF s # <<>> /\ Head(s) \in Whitespace THEN trimStart(Tail(s)) ELSE s

RECURSIVE trimEnd(_)
trimEnd(s) ==
    IF s # <<>> /\ s[Len(s)] \in Whitespace
    THEN trimEnd(SubSeq(s, 1, Len(s) - 1)) ELSE s

trim(s) == trimEnd(trimStart(s))

\* the updaters of lines 194-201 and 206-213
UpdateLast(prev, sender, text) ==
    IF prev # <<>> /\ prev[Len(prev)].sender = sender
    THEN [prev EXCEPT ![Len(prev)].text = text]
    ELSE prev

Present(t) == t # NoText

\* lines 190-236 on the state st = [input, output, transcript]
AfterOutput(sc, st) ==
    IF Present(sc.outputTranscription)
    THEN LET out == st.output \o sc.outputTranscription IN
         [st EXCEPT !.output = out,
                    !.transcript = UpdateLast(st.transcript, Agent, out)]
    ELSE st

AfterInput(sc, st) ==
    IF Present(sc.inputTranscription)
    THEN LET in == st.input \o sc.inputTranscription IN
         [st EXCEPT !.input = in,
                    !.transcript = UpdateLast(st.transcript, User, in)]
    ELSE st

AfterTurnComplete(sc, st) ==
    IF sc.turnComplete
    THEN LET t1 == IF trim(st.input) # <<>>
                   THEN UpdateLast(st.transcript, User, st.input)
                   ELSE st.transcript
             t2 == IF trim(st.output) # <<>>
                   THEN UpdateLast(t1, Agent, st.output)
                   ELSE t1
         IN [input |-> <<>>, output |-> <<>>, transcript |-> t2]
    ELSE st

ServerContent(sc, st) == AfterTurnComplete(sc, AfterInput(sc, AfterOutput(sc, st)))

Grown(heard, t) == IF Present(t) THEN heard \o t ELSE heard

\* onmessage of session c, lines 186-263 (audio left out): handleMessage as
\* startConversation call c captured it, so handleToolCall reads the accounts
\* of that render
OnMessage(c, message) ==
    /\ calls[c].pc = "open"
    /\ LET hasTool == message.toolCall # NoToolCall /\ sessionPromiseRef # NULL
           tool == IF hasTool
                   THEN handleToolCall(message.toolCall, 1, calls[c].accounts,
                            [accounts |-> accounts, transactions |-> transactions,
                             viewingHistory |-> viewingHistory,
                             responses |-> <<>>, threw |-> FALSE])
                   ELSE [accounts |-> accounts, transactions |-> transactions,
                         viewingHistory |-> viewingHistory,
                         responses |-> <<>>, threw |-> FALSE]
           sc == IF tool.threw THEN NoContent ELSE message.serverContent
           text == ServerContent(sc,
                       [input |-> currentInputTranscriptionRef,
                        output |-> currentOutputTranscriptionRef,
                        transcript |-> transcript])
           resolved == sessionPromiseRef # NULL
                          /\ calls[sessionPromiseRef].pc # "connecting"
       IN /\ message.toolCall # NoToolCall => toolMessages < MaxToolMessages
          /\ Len(Grown(currentInputTranscriptionRef, sc.inputTranscription)) <= MaxText
          /\ Len(Grown(currentOutputTranscriptionRef, sc.outputTranscription)) <= MaxText
          /\ accounts' = tool.accounts
          /\ transactions' = tool.transactions
          /\ viewingHistory' = tool.viewingHistory
          /\ toolCall' = IF hasTool THEN message.toolCall ELSE NoToolCall
          /\ toolResponses' = IF resolved THEN tool.responses ELSE <<>>
          /\ thenQueue' = IF resolved \/ sessionPromiseRef = NULL THEN thenQueue
                          ELSE [thenQueue EXCEPT ![sessionPromiseRef] = @ \o tool.responses]
          /\ currentInputTranscriptionRef' = text.input
          /\ currentOutputTranscriptionRef' = text.output
          /\ transcript' = text.transcript
          /\ lastMessage' = sc
          /\ toolMessages' = IF message.toolCall # NoToolCall
                             THEN toolMessages + 1 ELSE toolMessages
          /\ heardInput' = IF sc.turnComplete THEN <<>>
                           ELSE Grown(heardInput, sc.inputTranscription)
          /\ heardOutput' = IF sc.turnComplete THEN <<>>
                            ELSE Grown(heardOutput, sc.outputTranscription)
    /\ UNCHANGED <<isRecording, error, status, apiKeySelected, refVars,
                   calls, closeRequested, liveTracks, openContexts>>

\* ------------------------------------------------------------ message inputs
Chunks == {<<"a">>, <<" ">>}

ContentMessages ==
    {[toolCall |-> NoToolCall,
      serverContent |-> [outputTranscription |-> o, inputTranscription |-> i,
                         turnComplete |-> t]] :
        o \in Chunks \cup {NoText}, i \in Chunks \cup {NoText}, t \in BOOLEAN}

Amounts == {-1000, 1000, 2000}

Call(id, name, args) == [id |-> id, name |-> name, args |-> args]

BalanceCalls(id) ==
    {Call(id, GetAccountBalance, [accountType |-> a]) : a \in AccountStrings}

TransferCalls(id) ==
    {Call(id, TransferFunds, [amount |-> n, fromAccount |-> f, toAccount |-> t]) :
        n \in Amounts, f \in AccountStrings, t \in AccountStrings}

HistoryCalls(id, limits) ==
    {Call(id, GetTransactionHistory, [accountType |-> a, limit |-> l]) :
        a \in AccountStrings, l \in limits}
        \cup {Call(id, GetTransactionHistory, [accountType |-> a]) :
                  a \in AccountStrings}

UnknownCalls(id) == {Call(id, "closeAccount", [accountType |-> "checking"])}

ToolMessage(functionCalls) ==
    [toolCall |-> functionCalls, serverContent |-> NoContent]

\* one function call of any kind, or a transfer followed by a second call
BankCalls(id) ==
    BalanceCalls(id) \cup TransferCalls(id) \cup UnknownCalls(id)
        \cup HistoryCalls(id, {3})

ValidAccount(a) == toLowerCase(a) \in DOMAIN InitialAccounts

BetweenAccounts(fc) ==
    ValidAccount(fc.args.fromAccount) /\ ValidAccount(fc.args.toAccount)

BankMessages ==
    {ToolMessage(<<fc>>) : fc \in BankCalls(1)}
        \cup {ToolMessage(<<f1, f2>>) :
                 f1 \in {fc \in TransferCalls(1) :
                            fc.args.amount = 1000 /\ BetweenAccounts(fc)},
                 f2 \in BalanceCalls(2)
                          \cup {fc \in TransferCalls(2) : BetweenAccounts(fc)}}

HistoryMessages ==
    {ToolMessage(<<fc>>) :
        fc \in HistoryCalls(1, -MaxLimit..MaxLimit)}

\* ------------------------------------------------------------ specifications
Next ==
    \/ Lifecycle
    \/ \E c \in Ids, message \in ContentMessages : OnMessage(c, message)

Spec == Init /\ [][Next]_vars

NextBank ==
    \/ Lifecycle
    \/ \E c \in Ids, message \in BankMessages : OnMessage(c, message)

SpecBank == InitLate /\ [][NextBank]_vars

NextHistory ==
    \/ Lifecycle
    \/ \E c \in Ids, message \in HistoryMessages : OnMessage(c, message)

SpecHistory == InitLate /\ [][NextHistory]_vars

SpecLifecycle == Init /\ [][Lifecycle]_vars

\* ------------------------------------------------------------------ claims
\* the step handled a toolCall message and its responses were sent at once
\* (the session promise was resolved)
Answered == toolCall # NoToolCall /\ Len(toolResponses) = Len(toolCall)

\* account names that are checking or savings in some letter case
BankAccountStrings == {"checking", "Savings"}

\* the account such a name stands for
AccountOf(a) == IF a = "checking" THEN "checking" ELSE "savings"

\* a message of one transferFunds call between checking and savings
SingleTransfer(tc) ==
    /\ Len(tc) = 1
    /\ tc[1].name = TransferFunds
    /\ tc[1].args.fromAccount \in BankAccountStrings
    /\ tc[1].args.toAccount \in BankAccountStrings

Succeeded(r) == "success" \in DOMAIN r.response

\* the balance of account a after the first call of the message tc, a
\* transfer between two different accounts answered by r, was handled in the
\* account state acc
BalanceAfterFirst(tc, r, acc, a) ==
    IF Succeeded(r)
    THEN IF AccountOf(tc[1].args.fromAccount) = a THEN acc[a] - tc[1].args.amount
         ELSE IF AccountOf(tc[1].args.toAccount) = a THEN acc[a] + tc[1].args.amount
         ELSE acc[a]
    ELSE acc[a]

\* the first of two calls is a transfer between two different accounts
StartsWithTransfer(tc) ==
    /\ Len(tc) = 2
    /\ SingleTransfer(<<tc[1]>>)
    /\ AccountOf(tc[1].args.fromAccount) # AccountOf(tc[1].args.toAccount)

\* C1: a getAccountBalance call for checking or savings, in any letter case,
\* is answered with the balance the account has when the call is handled:
\* the balance at session start adjusted by every transfer answered with
\* success before it.  Stated for a message of the call alone, and for the
\* call after a transfer between two different accounts in one message.
C1_BalanceIsCurrent ==
    [][(/\ toolCall' # NoToolCall
        /\ Len(toolResponses') = Len(toolCall')
        /\ Len(toolCall') = 1 \/ StartsWithTransfer(toolCall')
        /\ toolCall'[Len(toolCall')].name = GetAccountBalance
        /\ toolCall'[Len(toolCall')].args.accountType \in BankAccountStrings)
       => LET a == AccountOf(toolCall'[Len(toolCall')].args.accountType) IN
          toolResponses'[Len(toolCall')].response =
             [balance |-> IF Len(toolCall') = 1 THEN accounts[a]
                          ELSE BalanceAfterFirst(toolCall', toolResponses'[1],
                                                 accounts, a)]]_vars

\* C2: a transferFunds call answered with success, for any amount and any
\* from and to account in {checking, savings}, takes exactly amount from the
\* from-account, adds exactly amount to the to-account and changes nothing
\* else in the account state (a transfer from an account to itself included,
\* which leaves the balance as it was).
C2_TransferMovesAmount ==
    [][(/\ toolCall' # NoToolCall
        /\ Len(toolResponses') = 1
        /\ SingleTransfer(toolCall')
        /\ Succeeded(toolResponses'[1]))
       => LET from == AccountOf(toolCall'[1].args.fromAccount)
              to == AccountOf(toolCall'[1].args.toAccount)
              amount == toolCall'[1].args.amount
              debited == [accounts EXCEPT ![from] = @ - amount]
          IN /\ accounts' = [debited EXCEPT ![to] = @ + amount]
             /\ transactions' = transactions
             /\ viewingHistory' = viewingHistory]_vars

\* C3: a transferFunds call whose amount is greater than the from-account's
\* balance when the call is handled, earlier calls of the same toolCall
\* message counted, is answered with 'Insufficient funds.' and leaves both
\* balances as they were.  Stated for a transfer between two different
\* accounts that follows another such transfer in the same message.
C3_OverdraftRefused ==
    [][(/\ toolCall' # NoToolCall
        /\ Len(toolResponses') = 2
        /\ StartsWithTransfer(toolCall')
        /\ SingleTransfer(<<toolCall'[2]>>)
        /\ AccountOf(toolCall'[2].args.fromAccount)
             # AccountOf(toolCall'[2].args.toAccount)
        /\ toolCall'[2].args.amount >
             BalanceAfterFirst(toolCall', toolResponses'[1], accounts,
                               AccountOf(toolCall'[2].args.fromAccount)))
       => /\ "error" \in DOMAIN toolResponses'[2].response
          /\ toolResponses'[2].response.error = InsufficientFunds
          /\ \A a \in DOMAIN accounts :
                accounts'[a] = BalanceAfterFirst(toolCall', toolResponses'[1],
                                                 accounts, a)]_vars

\* a call that names an account other than checking or savings
NamesOtherAccount(fc) ==
    \/ /\ fc.name = GetAccountBalance
       /\ fc.args.accountType \notin BankAccountStrings
    \/ /\ fc.name = TransferFunds
       /\ \/ fc.args.fromAccount \notin BankAccountStrings
          \/ fc.args.toAccount \notin BankAccountStrings

\* C4: a getAccountBalance or transferFunds call that names an account type
\* other than checking or savings is answered with the error 'Account type
\* ... not found.' or 'Invalid account specified.', and a message of such
\* calls changes no balance.
C4_OtherAccountRefused ==
    [][(toolCall' # NoToolCall /\ Len(toolResponses') = Len(toolCall'))
       => /\ \A i \in 1..Len(toolCall') :
                NamesOtherAccount(toolCall'[i])
                => toolResponses'[i].response =
                      IF toolCall'[i].name = GetAccountBalance
                      THEN [error |-> AccountNotFound(toolCall'[i].args.accountType)]
                      ELSE [error |-> InvalidAccount]
          /\ (\A i \in 1..Len(toolCall') : NamesOtherAccount(toolCall'[i]))
             => accounts' = accounts]_vars

\* a refused transfer from checking to an unknown account was just answered
C4_Witness ==
    /\ Answered
    /\ Len(toolCall) = 1
    /\ toolCall[1].name = TransferFunds
    /\ toolCall[1].args.fromAccount = "checking"
    /\ toolCall[1].args.toAccount = "credit"
    /\ toolResponses[1].response = [error |-> InvalidAccount]
    /\ accounts = InitialAccounts

DeclaredFunctions == {GetAccountBalance, TransferFunds, GetTransactionHistory}

\* C6: each function call of a toolCall message handled while a session
\* exists is answered with exactly one sendToolResponse that carries the
\* call's id and name, an undeclared name with the error 'Unknown function
\* call: <name>'.  Stated for a session whose promise is resolved, where the
\* responses are sent in the step that handles the message.
C6_EveryCallAnswered ==
    (/\ toolCall # NoToolCall
     /\ sessionPromiseRef # NULL
     /\ calls[sessionPromiseRef].pc = "open")
    => /\ Len(toolResponses) = Len(toolCall)
       /\ \A i \in 1..Len(toolCall) :
             /\ toolResponses[i].id = toolCall[i].id
             /\ toolResponses[i].name = toolCall[i].name
             /\ toolCall[i].name \notin DeclaredFunctions
                => toolResponses[i].response =
                      [error |-> UnknownFunction(toolCall[i].name)]

\* C10: the checking and savings balances always add up to the initial 6000.
C10_MoneyConserved ==
    accounts.checking + accounts.savings = InitialChecking + InitialSavings

\* a message of one getTransactionHistory call for checking or savings
HistoryCall(tc) ==
    /\ Len(tc) = 1
    /\ tc[1].name = GetTransactionHistory
    /\ tc[1].args.accountType \in BankAccountStrings

IsPrefix(p, s) == Len(p) <= Len(s) /\ p = SubSeq(s, 1, Len(p))

StoredCount(a) == IF a = "checking" THEN 20 ELSE 15

\* what C5 says of the list but for the bound by limit: it is a prefix of
\* the stored list, of min(10, stored count) entries when limit is omitted,
\* and transactionsRetrieved is its length
HistoryIsPrefix ==
    LET a == AccountOf(toolCall[1].args.accountType) IN
    /\ Len(mockData[a]) = StoredCount(a)
    /\ IsPrefix(transactions, mockData[a])
    /\ "limit" \notin DOMAIN toolCall[1].args
       => Len(transactions) = Min(10, StoredCount(a))
    /\ toolResponses[1].response =
          [success |-> TRUE, transactionsRetrieved |-> Len(transactions)]

C7_RejectedStartResets ==
    [][\A c \in Ids :
          (calls[c].pc = "awaitMic" /\ calls'[c].pc = "rejected")
          => /\ status' = "idle"
             /\ isRecording' = FALSE
             /\ error' = MicError
             /\ sessionPromiseRef' = NULL]_vars

\* the step handled a message without turnComplete while connected
Heard(text) ==
    /\ status = "connected"
    /\ Present(text)
    /\ text # <<>>
    /\ ~lastMessage.turnComplete

\* C8: after a message with a non-empty inputTranscription is handled in a
\* connected session, the transcript has a User message whose text is the
\* concatenation of the input transcription texts since the last
\* turnComplete.
C8_UserSpeechShown ==
    Heard(lastMessage.inputTranscription)
    => \E i \in 1..Len(transcript) :
          /\ transcript[i].sender = User
          /\ transcript[i].text = heardInput

\* C9: after a message with an outputTranscription is handled in a
\* connected session, the text of the Agent message is the concatenation of
\* the output transcription texts since the later of the session's start
\* and its last turnComplete, with no text of an earlier turn or session.
C9_AgentTextOfThisTurn ==
    (Heard(lastMessage.outputTranscription) /\ transcript # <<>>)
    => (transcript[Len(transcript)].sender = Agent
        => transcript[Len(transcript)].text = heardOutput)

\* C11: after any tool calls with any numeric amounts, several transfers in
\* one toolCall message included, neither balance is negative.
C11_NoNegativeBalance ==
    accounts.checking >= 0 /\ accounts.savings >= 0

\* callback of session c: its onerror or onclose ran in this step
CallbackOf(c) ==
    /\ calls'[c].pc \in {"errored", "closed"}
    /\ calls'[c].pc # calls[c].pc

\* the session d the user started after session c is under way
NewerSession(c, d) ==
    /\ d > c
    /\ sessionPromiseRef = d
    /\ calls[d].pc \in {"connecting", "open"}

\* C12: an onclose or onerror of an earlier session that arrives after the
\* user started a new session does not stop the new session: its session
\* object, microphone stream and audio contexts stay open and status does
\* not fall back to 'idle'.
C12_StaleCallbackSpares ==
    [][\A c \in Ids, d \in Ids :
          (CallbackOf(c) /\ NewerSession(c, d))
          => /\ sessionPromiseRef' = d
             /\ calls'[d].pc = calls[d].pc
             /\ d \notin closeRequested'
             /\ mediaStreamRef' = mediaStreamRef
             /\ liveTracks' = liveTracks
             /\ inputAudioContextRef' = inputAudioContextRef
             /\ outputAudioContextRef' = outputAudioContextRef
             /\ openContexts' = openContexts
             /\ status' = status]_vars

\* C13: whenever status is 'idle' no session resource is held: the session
\* reference, microphone stream, script processor, media stream source and
\* both audio contexts are null, and every acquired microphone track has
\* been stopped.
C13_IdleHoldsNothing ==
    status = "idle"
    => /\ sessionPromiseRef = NULL
       /\ mediaStreamRef = NULL
       /\ scriptProcessorRef = NULL
       /\ mediaStreamSourceRef = NULL
       /\ inputAudioContextRef = NULL
       /\ outputAudioContextRef = NULL
       /\ liveTracks = {}
====
